---------------------------- MODULE Spec2Model ----------------------------
(***************************************************************************)
(* Model of the YouTube downloader: the URL validator (src/src/validator.py)*)
(* the download orchestrator (src/src/downloader.py) and the command-line   *)
(* front end (src/main.py).                                                 *)
(*                                                                          *)
(* Four specifications share the variables:                                *)
(*   SpecUrl  URLValidator.validate / extract_video_id on generated URLs    *)
(*   SpecObj  one YouTubeDownloader object under any sequence of calls      *)
(*   Spec     one run of main(), interactive or with flags                  *)
(*   SpecBar  the progress hook of one download under any progress events   *)
(* Python strings are TLA+ strings; None is the string NoneVal where a      *)
(* string is expected.  A value a call has not produced yet is <<>>, the    *)
(* value it returned v is <<v>>.                                            *)
(***************************************************************************)
EXTENDS Integers, Sequences, FiniteSets, TLC

VARIABLES
    url,            \* YouTubeDownloader.url / the string handed to URLValidator
    parts,          \* ghost: the pieces the URL was assembled from
    validate_ret,   \* <<>> or <<BOOLEAN>>: what validate returned
    extract_ret,    \* <<>> or <<id or NoneVal>>: what extract_video_id returned
    output_path,    \* YouTubeDownloader.output_path
    browser,        \* YouTubeDownloader.browser (NoneVal for None)
    cookies_file,   \* YouTubeDownloader.cookies_file (NoneVal for None)
    video_info,     \* YouTubeDownloader._video_info
    cookie_exists,  \* environment: os.path.exists(cookies_file)
    n_calls,        \* ghost: calls of get_video_info and download made so far
    n_extract,      \* ghost: ydl.extract_info invocations (external metadata fetches)
    n_download,     \* ghost: ydl.download invocations (external downloads)
    last,           \* ghost: the last call of get_video_info or download: how it
                    \* ended, the options record it handed to yt_dlp.YoutubeDL
                    \* and the directory it created
    prev,           \* ghost: how the call before the last ended
    pc,             \* where the run of main() stands
    args,           \* the argparse.Namespace of the run
    format_type,    \* run_interactive / run_with_args: format_type ("" before it is set)
    pending,        \* <<>> or <<code>>: the code a return statement is about to return
    exit_code,      \* <<>> or <<code>>: what main() returned
    raised,         \* the exception that left main(), "" for none
    interrupted,    \* ghost: a KeyboardInterrupt arrived
    prompts,        \* ghost: how often each prompt was shown
    retries,        \* ghost: answers that made a prompt repeat
    confirm_ret,    \* <<>> or <<BOOLEAN>>: what confirm_download returned
    display_ret,    \* <<>> or <<BOOLEAN>>: what display_video_info returned
    d,              \* the progress event yt-dlp handed to progress_hook, <<>> for none yet
    rendered        \* ghost: what progress_hook did with d: the percentage and the bar
                    \* print_progress_bar got and wrote, or the exception it raised

urlVars == <<url, parts, validate_ret, extract_ret>>
objVars == <<output_path, browser, cookies_file, video_info, cookie_exists,
             n_calls, n_extract, n_download, last, prev>>
mainVars == <<pc, args, format_type, pending, exit_code, raised, interrupted,
              prompts, retries, confirm_ret, display_ret>>
hookVars == <<d, rendered>>
vars == <<urlVars, objVars, mainVars, hookVars>>

NoneVal == "<None>"

(***************************************************************************)
(* src/src/validator.py                                                    *)
(***************************************************************************)

\* The character class [a-zA-Z0-9_-].
IdChars ==
    { "a","b","c","d","e","f","g","h","i","j","k","l","m",
      "n","o","p","q","r","s","t","u","v","w","x","y","z",
      "A","B","C","D","E","F","G","H","I","J","K","L","M",
      "N","O","P","Q","R","S","T","U","V","W","X","Y","Z",
      "0","1","2","3","4","5","6","7","8","9","_","-" }

\* The repetition count {11} of every pattern.
IdLen == 11

\* Mutant of YOUTUBE_PATTERNS: the short-link pattern also takes (?:www\.)?.
YOUTUBE_PATTERNS_ShortWww ==
    << [optwww |-> TRUE,  lit |-> "youtube.com/watch?v="],
       [optwww |-> TRUE,  lit |-> "youtube.com/v/"],
       [optwww |-> TRUE,  lit |-> "youtube.com/embed/"],
       [optwww |-> TRUE,  lit |-> "youtube.com/shorts/"],
       [optwww |-> TRUE,  lit |-> "youtu.be/"],
       [optwww |-> TRUE,  lit |-> "youtube.com/live/"] >>

\* YOUTUBE_PATTERNS, in order.  Every pattern is
\*   ^https?://  (?:www\.)?  <lit>  ([a-zA-Z0-9_-]{11})
\* optwww tells whether the pattern has the optional (?:www\.)? group.
YOUTUBE_PATTERNS ==
    << [optwww |-> TRUE,  lit |-> "youtube.com/watch?v="],
       [optwww |-> TRUE,  lit |-> "youtube.com/v/"],
       [optwww |-> TRUE,  lit |-> "youtube.com/embed/"],
       [optwww |-> TRUE,  lit |-> "youtube.com/shorts/"],
       [optwww |-> FALSE, lit |-> "youtu.be/"],
       [optwww |-> TRUE,  lit |-> "youtube.com/live/"] >>

\* The character of s at position i.
CharAt(s, i) == SubSeq(s, i, i)

\* Whether the literal lit stands in s at position pos.
LitAt(s, pos, lit) ==
    /\ pos + Len(lit) - 1 <= Len(s)
    /\ SubSeq(s, pos, pos + Len(lit) - 1) = lit

\* Whether s has n characters of the class from position pos on.
ClassRun(s, pos, n) ==
    /\ pos + n - 1 <= Len(s)
    /\ \A i \in pos .. (pos + n - 1) : CharAt(s, i) \in IdChars

\* re.match(pattern, s): the position where group 1 starts, or 0 for no match.
\* The match is anchored at the start of s only (^, and no $).
ReMatch(p, s) ==
    IF ~LitAt(s, 1, "http") THEN 0
    ELSE LET p1 == IF LitAt(s, 5, "s") THEN 6 ELSE 5 IN
         IF ~LitAt(s, p1, "://") THEN 0
         ELSE LET p2 == p1 + 3
                  p3 == IF p.optwww /\ LitAt(s, p2, "www.") THEN p2 + 4 ELSE p2
              IN IF ~LitAt(s, p3, p.lit) THEN 0
                 ELSE LET p4 == p3 + Len(p.lit) IN
                      IF ClassRun(s, p4, IdLen) THEN p4 ELSE 0

\* match.group(1)
Group1(s, start) == SubSeq(s, start, start + IdLen - 1)

\* URLValidator.validate
validate(s) ==
    IF s = "" THEN FALSE
    ELSE \E i \in 1 .. Len(YOUTUBE_PATTERNS) : ReMatch(YOUTUBE_PATTERNS[i], s) # 0

\* URLValidator.extract_video_id: the group of the first pattern that matches.
extract_video_id(s) ==
    IF s = "" THEN NoneVal
    ELSE LET hits == { i \in 1 .. Len(YOUTUBE_PATTERNS) :
                          ReMatch(YOUTUBE_PATTERNS[i], s) # 0 }
         IN IF hits = {} THEN NoneVal
            ELSE LET first == CHOOSE i \in hits : \A j \in hits : i <= j
                 IN Group1(s, ReMatch(YOUTUBE_PATTERNS[first], s))

(***************************************************************************)
(* Inputs of the validator: a URL is scheme, host, path, identifier        *)
(* segment and trailing content, concatenated.                             *)
(***************************************************************************)
Schemes == { "http://", "https://", "", "ftp://", "HTTPS://", "https:/" }

Hosts == { "youtube.com", "www.youtube.com", "youtu.be", "www.youtu.be",
           "m.youtube.com", "youtube.org" }

Paths == { "/watch?v=", "/v/", "/embed/", "/shorts/", "/live/", "/",
           "/playlist?list=", "/watch?feature=share&v=" }

\* Identifier segments: 11 characters of the class, fewer, more, none, and
\* 11 characters with one outside the class.
Idents == { "dQw4w9WgXcQ", "a-B_c-D_e-0", "-----------", "___________",
            "dQw4w9WgXc", "dQw4w9WgXcQX", "dQw4w9WgXcQ-_", "",
            "dQw4w!WgXcQ", "dQw4w9WgXc.", "a" }

\* Trailing content; none of it starts with a character of the class.
Tails == { "", "&t=10s", "?si=AbC", "/", "#top", "&list=PLx&index=2" }

Assemble(p) == p.scheme \o p.host \o p.path \o p.ident \o p.tail

UrlParts == [ scheme : Schemes, host : Hosts, path : Paths,
              ident : Idents, tail : Tails ]

\* Strings that are no URL at all, kept as one piece.
RawStrings == { "", "not-a-url", "youtube", "http", "https://", "dQw4w9WgXcQ" }

RawParts == { [ scheme |-> "", host |-> "", path |-> "", ident |-> "", tail |-> r ] :
              r \in RawStrings }

(***************************************************************************)
(* Python values and string methods used by the code.                      *)
(***************************************************************************)

\* The empty dict {}.
EmptyDict == <<>>

\* {**a, **b}: the keys of both, b's value where both have the key.
Merge(a, b) == b @@ a

\* bool(s) of an Optional[str]: None and "" are false.
StrTruthy(s) == s # NoneVal /\ s # ""

UpperLetters == "ABCDEFGHIJKLMNOPQRSTUVWXYZ"
LowerLetters == "abcdefghijklmnopqrstuvwxyz"

LowerChar(c) ==
    IF \E i \in 1 .. Len(UpperLetters) : CharAt(UpperLetters, i) = c
    THEN CharAt(LowerLetters, CHOOSE i \in 1 .. Len(UpperLetters) : CharAt(UpperLetters, i) = c)
    ELSE c

RECURSIVE Lower(_)
\* str.lower()
Lower(s) == IF s = "" THEN "" ELSE LowerChar(CharAt(s, 1)) \o Lower(SubSeq(s, 2, Len(s)))

\* sub in s
Contains(s, sub) == \E i \in 1 .. (Len(s) - Len(sub) + 1) : LitAt(s, i, sub)

\* s.endswith(suffix)
EndsWith(s, suffix) == Len(suffix) <= Len(s) /\ LitAt(s, Len(s) - Len(suffix) + 1, suffix)

RECURSIVE Strip(_)
\* str.strip(), for the blank
Strip(s) ==
    IF s = "" THEN ""
    ELSE IF CharAt(s, 1) = " " THEN Strip(SubSeq(s, 2, Len(s)))
    ELSE IF CharAt(s, Len(s)) = " " THEN Strip(SubSeq(s, 1, Len(s) - 1))
    ELSE s

\* os.path.join(a, b) for a relative b
PathJoin(a, b) ==
    IF a = "" THEN b
    ELSE IF EndsWith(a, "/") THEN a \o b
    ELSE a \o "/" \o b

(***************************************************************************)
(* src/src/downloader.py                                                   *)
(***************************************************************************)

\* class FormatType(Enum): the member names.
FormatType == { "MP4", "SOURCE", "MP3", "AAC" }

\* Values that are no FormatType: a member of another Enum (it has a .value),
\* and a plain str or None (they have none).
ForeignMember == "WEBM"
PlainStr == "str"
AnyFormat == FormatType \cup { ForeignMember, PlainStr }

\* format_type.value
FormatValue(ft) ==
    CASE ft = "MP4" -> "mp4"
      [] ft = "SOURCE" -> "source"
      [] ft = "MP3" -> "mp3"
      [] ft = "AAC" -> "aac"
      [] ft = ForeignMember -> "webm"

\* A metadata record (the dict sanitize_info returns) is the set of its
\* fields and its title; None is NoneInfo.
NoneInfo == [ isNone |-> TRUE, fields |-> {}, title |-> "" ]
InfoDict(fields, title) == [ isNone |-> FALSE, fields |-> fields, title |-> title ]

\* bool(info): None and the dict without fields are false.
Truthy(info) == ~info.isNone /\ info.fields # {}

\* Mutant of get_auth_options: the cookie file is tested with `if`, not `elif`.
get_auth_options_BothEntries(br, cf, exists) ==
    Merge(IF StrTruthy(br) THEN [ cookiesfrombrowser |-> <<br>> ] ELSE EmptyDict,
          IF StrTruthy(cf) /\ exists THEN [ cookiefile |-> cf ] ELSE EmptyDict)

\* YouTubeDownloader._get_auth_options
get_auth_options(br, cf, exists) ==
    IF StrTruthy(br) THEN [ cookiesfrombrowser |-> <<br>> ]
    ELSE IF StrTruthy(cf) /\ exists THEN [ cookiefile |-> cf ]
    ELSE EmptyDict

\* The ydl_opts of get_video_info.
InfoOptions(auth) ==
    Merge([ quiet |-> TRUE, no_warnings |-> TRUE, nocheckcertificate |-> TRUE,
            extractor_retries |-> 5, sleep_interval |-> 5,
            max_sleep_interval |-> 30, sleep_interval_requests |-> 1 ],
          auth)

\* The except clause of get_video_info: which message is printed.
FetchErrorMessage(msg) ==
    IF Contains(Lower(msg), "rate-limited") \/ Contains(Lower(msg), "isn't available")
    THEN "rate limit warning"
    ELSE "Error fetching video info"

\* What the extraction service does when asked for metadata: it returns a
\* record, raises yt_dlp.utils.DownloadError with a message, raises another
\* exception, or the user interrupts it.
Answer(kind, info, msg) == [ kind |-> kind, info |-> info, msg |-> msg ]

\* Mutant of get_video_info: the except clause stores the failure in _video_info.
get_video_info_CachesFailure(vi, auth, answer) ==
    IF Truthy(vi)
    THEN [ video_info |-> vi, ret |-> vi, exc |-> "", contacted |-> FALSE,
           printed |-> "", outcome |-> "", opts |-> EmptyDict ]
    ELSE CASE answer.kind = "record" ->
                [ video_info |-> answer.info, ret |-> answer.info, exc |-> "",
                  contacted |-> TRUE, printed |-> "", outcome |-> answer.kind,
                  opts |-> InfoOptions(auth) ]
           [] answer.kind = "DownloadError" ->
                [ video_info |-> InfoDict({"error"}, ""), ret |-> NoneInfo, exc |-> "",
                  contacted |-> TRUE, printed |-> FetchErrorMessage(answer.msg),
                  outcome |-> answer.kind, opts |-> InfoOptions(auth) ]
           [] OTHER ->
                [ video_info |-> vi, ret |-> NoneInfo, exc |-> answer.kind,
                  contacted |-> TRUE, printed |-> "", outcome |-> answer.kind,
                  opts |-> InfoOptions(auth) ]

\* YouTubeDownloader.get_video_info, with the service answering `answer` if it
\* is asked: the new _video_info, the value returned, the exception that leaves
\* the method ("" for none), whether the service was contacted, what is printed
\* and the ydl_opts handed to yt_dlp.YoutubeDL.
get_video_info(vi, auth, answer) ==
    IF Truthy(vi)
    THEN [ video_info |-> vi, ret |-> vi, exc |-> "", contacted |-> FALSE,
           printed |-> "", outcome |-> "", opts |-> EmptyDict ]
    ELSE CASE answer.kind = "record" ->
                [ video_info |-> answer.info, ret |-> answer.info, exc |-> "",
                  contacted |-> TRUE, printed |-> "", outcome |-> answer.kind,
                  opts |-> InfoOptions(auth) ]
           [] answer.kind = "DownloadError" ->
                [ video_info |-> vi, ret |-> NoneInfo, exc |-> "",
                  contacted |-> TRUE, printed |-> FetchErrorMessage(answer.msg),
                  outcome |-> answer.kind, opts |-> InfoOptions(auth) ]
           [] OTHER ->
                [ video_info |-> vi, ret |-> NoneInfo, exc |-> answer.kind,
                  contacted |-> TRUE, printed |-> "", outcome |-> answer.kind,
                  opts |-> InfoOptions(auth) ]

\* base_opts of _get_ydl_options
BaseOptions(folder, auth) ==
    Merge([ outtmpl |-> folder \o "/%(title)s.%(ext)s",
            progress_hooks |-> << "progress_hook" >>,
            quiet |-> TRUE, no_warnings |-> TRUE, nocheckcertificate |-> TRUE,
            extractor_retries |-> 5, retries |-> 10, fragment_retries |-> 10,
            sleep_interval |-> 5, max_sleep_interval |-> 30,
            sleep_interval_requests |-> 1 ],
          auth)

\* Mutant of FormatOptions: the AAC branch copies the MP3 bitrate.
FormatOptions_AacAt320(ft) ==
    CASE ft = "MP4" ->
            [ format |-> "bestvideo[ext=mp4]+bestaudio[ext=m4a]/best[ext=mp4]/best",
              merge_output_format |-> "mp4",
              postprocessors |-> << [ key |-> "FFmpegVideoConvertor",
                                      preferedformat |-> "mp4" ] >> ]
      [] ft = "SOURCE" ->
            [ format |-> "bestvideo+bestaudio/best" ]
      [] ft = "MP3" ->
            [ format |-> "bestaudio/best",
              postprocessors |-> << [ key |-> "FFmpegExtractAudio",
                                      preferredcodec |-> "mp3",
                                      preferredquality |-> "320" ] >> ]
      [] ft = "AAC" ->
            [ format |-> "bestaudio/best",
              postprocessors |-> << [ key |-> "FFmpegExtractAudio",
                                      preferredcodec |-> "aac",
                                      preferredquality |-> "320" ] >> ]

\* The four branches of _get_ydl_options.
FormatOptions(ft) ==
    CASE ft = "MP4" ->
            [ format |-> "bestvideo[ext=mp4]+bestaudio[ext=m4a]/best[ext=mp4]/best",
              merge_output_format |-> "mp4",
              postprocessors |-> << [ key |-> "FFmpegVideoConvertor",
                                      preferedformat |-> "mp4" ] >> ]
      [] ft = "SOURCE" ->
            [ format |-> "bestvideo+bestaudio/best" ]
      [] ft = "MP3" ->
            [ format |-> "bestaudio/best",
              postprocessors |-> << [ key |-> "FFmpegExtractAudio",
                                      preferredcodec |-> "mp3",
                                      preferredquality |-> "320" ] >> ]
      [] ft = "AAC" ->
            [ format |-> "bestaudio/best",
              postprocessors |-> << [ key |-> "FFmpegExtractAudio",
                                      preferredcodec |-> "aac",
                                      preferredquality |-> "256" ] >> ]

\* YouTubeDownloader._get_ydl_options: the exception it raises ("" for none),
\* the directory it has created by then, and the options it returns.
\* mkdir is what os.makedirs does: "ok" or "OSError".
get_ydl_options(ft, out, auth, mkdir) ==
    IF ft \in { PlainStr, NoneVal }
    THEN [ exc |-> "AttributeError", made |-> {}, opts |-> EmptyDict ]
    ELSE LET folder == PathJoin(out, FormatValue(ft)) IN
         IF mkdir # "ok"
         THEN [ exc |-> mkdir, made |-> {}, opts |-> EmptyDict ]
         ELSE IF ft \in FormatType
         THEN [ exc |-> "", made |-> { folder },
                opts |-> Merge(BaseOptions(folder, auth), FormatOptions(ft)) ]
         ELSE [ exc |-> "ValueError", made |-> { folder }, opts |-> EmptyDict ]

\* YouTubeDownloader.download, with the service's download operation ending
\* `result` if it is invoked: "ok", "DownloadError", "Exception" (any other
\* Exception) or "KeyboardInterrupt".
download(ft, out, auth, mkdir, result) ==
    LET o == get_ydl_options(ft, out, auth, mkdir) IN
    IF o.exc # ""
    THEN [ ret |-> FALSE, exc |-> o.exc, invoked |-> FALSE, made |-> o.made,
           opts |-> o.opts, printed |-> "", outcome |-> "" ]
    ELSE CASE result = "ok" ->
                [ ret |-> TRUE, exc |-> "", invoked |-> TRUE, made |-> o.made,
                  opts |-> o.opts, printed |-> "", outcome |-> result ]
           [] result = "DownloadError" ->
                [ ret |-> FALSE, exc |-> "", invoked |-> TRUE, made |-> o.made,
                  opts |-> o.opts, printed |-> "Download failed", outcome |-> result ]
           [] result = "KeyboardInterrupt" ->
                [ ret |-> FALSE, exc |-> result, invoked |-> TRUE, made |-> o.made,
                  opts |-> o.opts, printed |-> "", outcome |-> result ]
           [] OTHER ->
                [ ret |-> FALSE, exc |-> "", invoked |-> TRUE, made |-> o.made,
                  opts |-> o.opts, printed |-> "Unexpected error", outcome |-> result ]

(***************************************************************************)
(* src/src/utils.py: print_progress_bar, and the progress hook of          *)
(* src/src/downloader.py that feeds it.                                    *)
(*                                                                         *)
(* A byte count is <<n>>, None is <<>>.  The event d is a dict: a function *)
(* whose domain holds the keys that are present.  The percentage is the    *)
(* quotient num/den of two integers (den > 0): the code computes it in     *)
(* floating point, whose rounding error the byte counts below do not       *)
(* reach.  The size, speed and ETA texts that follow the bar on the line   *)
(* are left out.                                                           *)
(***************************************************************************)

\* The default of the parameter width of print_progress_bar.
DefaultWidth == 32

\* The cell characters of the bar ('█' and '░' in the source).
FilledCell == "#"
UnfilledCell == "."

\* c * n for a one-character string c: the empty string for n <= 0.
RECURSIVE Repeat(_, _)
Repeat(c, n) ==
    IF n <= 0 THEN ""
    ELSE IF n = 1 THEN c
    ELSE LET half == Repeat(c, n \div 2)
         IN half \o half \o (IF n % 2 = 1 THEN c ELSE "")

\* int(n / den) for den > 0: truncation towards zero.
IntOf(n, den) == IF n >= 0 THEN n \div den ELSE -((-n) \div den)

\* The percentage n/m.
Ratio(n, m) == [ num |-> n, den |-> m ]

\* print_progress_bar(percent, ..., width): the bar it writes.
\*   filled = int(width * percent / 100)
\*   bar = '█' * filled + '░' * (width - filled)
print_progress_bar(percent, width) ==
    LET filled == IntOf(width * percent.num, percent.den * 100)
    IN Repeat(FilledCell, filled) \o Repeat(UnfilledCell, width - filled)

\* No progress event yet, and a hook that has not been called.
NoDict == <<>>

NotRendered == [ called |-> FALSE, percent |-> Ratio(0, 1), bar |-> "",
                 exc |-> "", printed |-> "" ]

NoEvent ==
    /\ d = NoDict
    /\ rendered = NotRendered

\* dict.get(key, default)
Get(dict, key, default) == IF key \in DOMAIN dict THEN dict[key] ELSE default

\* bool(v) of an Optional[int]: None and 0 are false.
NumTruthy(v) == v # <<>> /\ v[1] # 0

\* progress_hook(d): what it hands to print_progress_bar and what is written.
\*   total = d.get('total_bytes') or d.get('total_bytes_estimate', 0)
\*   downloaded = d.get('downloaded_bytes', 0)
\*   percent = (downloaded / total) * 100 if total > 0 else 0
\* `total > 0` with total None, and `downloaded / total` with downloaded
\* None, raise TypeError.
progress_hook(dict) ==
    IF dict["status"] = "downloading"
    THEN LET tb == Get(dict, "total_bytes", <<>>)
             total == IF NumTruthy(tb) THEN tb
                      ELSE Get(dict, "total_bytes_estimate", << 0 >>)
             downloaded == Get(dict, "downloaded_bytes", << 0 >>)
         IN IF total = <<>>
            THEN [ NotRendered EXCEPT !.exc = "TypeError" ]
            ELSE IF total[1] > 0 /\ downloaded = <<>>
            THEN [ NotRendered EXCEPT !.exc = "TypeError" ]
            ELSE LET percent == IF total[1] > 0
                                THEN Ratio(downloaded[1] * 100, total[1])
                                ELSE Ratio(0, 1)
                 IN [ called |-> TRUE, percent |-> percent,
                      bar |-> print_progress_bar(percent, DefaultWidth),
                      exc |-> "", printed |-> "bar" ]
    ELSE IF dict["status"] = "finished"
    THEN [ NotRendered EXCEPT !.printed = "finished" ]
    ELSE IF dict["status"] = "error"
    THEN [ NotRendered EXCEPT !.printed = "error" ]
    ELSE NotRendered

(***************************************************************************)
(* The extraction service and the environment.                             *)
(***************************************************************************)

\* The records sanitize_info may produce: without fields, with a title only,
\* with title and duration (two videos).
ServiceRecords ==
    { InfoDict({}, ""), InfoDict({"title"}, "A"),
      InfoDict({"title", "duration"}, "A"), InfoDict({"title", "duration"}, "B") }

ErrorMessages ==
    { "ERROR: [youtube] Your IP is Rate-Limited by YouTube",
      "ERROR: [youtube] This video isn't available",
      "ERROR: unable to download webpage" }

ExtractAnswers ==
    { Answer("record", r, "") : r \in ServiceRecords }
    \cup { Answer("DownloadError", NoneInfo, m) : m \in ErrorMessages }
    \cup { Answer("Exception", NoneInfo, ""), Answer("KeyboardInterrupt", NoneInfo, "") }

DownloadResults == { "ok", "DownloadError", "Exception", "KeyboardInterrupt" }

MkdirResults == { "ok", "OSError" }

\* The last call: nothing yet.
NoCall ==
    [ op |-> "", format |-> "", ret_info |-> NoneInfo, ret_ok |-> FALSE, exc |-> "",
      contacted |-> FALSE, outcome |-> "", printed |-> "", cache_before |-> NoneInfo,
      opts |-> EmptyDict, made |-> {}, cookie_seen |-> FALSE ]

\* What is kept of the call before the last.
Brief(c) == [ op |-> c.op, ret_info |-> c.ret_info, exc |-> c.exc, outcome |-> c.outcome ]

(***************************************************************************)
(* SpecObj: one YouTubeDownloader object, constructed with any arguments,   *)
(* under any sequence of calls of its public methods.                      *)
(***************************************************************************)

\* At most this many calls of get_video_info and download on the object.
MaxCalls == 2

ObjUrls == { "https://www.youtube.com/watch?v=dQw4w9WgXcQ" }

OutputPaths == { "downloads", "out/" }

Browsers == { NoneVal, "", "chrome" }

CookieFiles == { NoneVal, "cookies.txt" }

RawPart(s) == [ scheme |-> "", host |-> "", path |-> "", ident |-> "", tail |-> s ]

NoPrompts == [ browser |-> 0, url |-> 0, format |-> 0, confirm |-> 0 ]

\* No run of main(): the object is used directly.
NoRun ==
    /\ pc = "none"
    /\ args = [ url |-> NoneVal, format |-> NoneVal, output |-> NoneVal,
                browser |-> NoneVal, cookies |-> NoneVal ]
    /\ format_type = ""
    /\ pending = <<>>
    /\ exit_code = <<>>
    /\ raised = ""
    /\ interrupted = FALSE
    /\ prompts = NoPrompts
    /\ retries = 0
    /\ confirm_ret = <<>>
    /\ display_ret = <<>>

\* YouTubeDownloader.__init__
Construct(u, out, br, cf) ==
    /\ url = u
    /\ parts = RawPart(u)
    /\ output_path = out
    /\ browser = br
    /\ cookies_file = cf
    /\ video_info = NoneInfo
    /\ validate_ret = <<>>
    /\ extract_ret = <<>>
    /\ n_calls = 0
    /\ n_extract = 0
    /\ n_download = 0
    /\ last = NoCall
    /\ prev = Brief(NoCall)

InitObj ==
    /\ \E u \in ObjUrls, out \in OutputPaths, br \in Browsers, cf \in CookieFiles :
          Construct(u, out, br, cf)
    /\ cookie_exists \in BOOLEAN
    /\ NoRun
    /\ NoEvent

\* The state change of one get_video_info call whose result is r.
ApplyGetVideoInfo(r) ==
    /\ video_info' = r.video_info
    /\ n_calls' = n_calls + 1
    /\ n_extract' = n_extract + (IF r.contacted THEN 1 ELSE 0)
    /\ prev' = Brief(last)
    /\ last' = [ op |-> "get_video_info", format |-> "", ret_info |-> r.ret,
                 ret_ok |-> FALSE, exc |-> r.exc, contacted |-> r.contacted,
                 outcome |-> r.outcome, printed |-> r.printed,
                 cache_before |-> video_info, opts |-> r.opts, made |-> {},
                 cookie_seen |-> cookie_exists ]
    /\ UNCHANGED n_download

\* The state change of one download(ft) call whose result is r.
ApplyDownload(ft, r) ==
    /\ n_calls' = n_calls + 1
    /\ n_download' = n_download + (IF r.invoked THEN 1 ELSE 0)
    /\ prev' = Brief(last)
    /\ last' = [ op |-> "download", format |-> ft, ret_info |-> NoneInfo,
                 ret_ok |-> r.ret, exc |-> r.exc, contacted |-> r.invoked,
                 outcome |-> r.outcome, printed |-> r.printed,
                 cache_before |-> video_info, opts |-> r.opts, made |-> r.made,
                 cookie_seen |-> cookie_exists ]
    /\ UNCHANGED <<video_info, n_extract>>

\* downloader.get_video_info()
ObjGetVideoInfo ==
    /\ n_calls < MaxCalls
    /\ \E answer \in ExtractAnswers :
          ApplyGetVideoInfo(
              get_video_info(video_info,
                             get_auth_options(browser, cookies_file, cookie_exists),
                             answer))
    /\ UNCHANGED <<output_path, browser, cookies_file, cookie_exists>>
    /\ UNCHANGED <<urlVars, mainVars>>
    /\ UNCHANGED hookVars

\* downloader.download(ft)
ObjDownload ==
    /\ n_calls < MaxCalls
    /\ \E ft \in AnyFormat, mkdir \in MkdirResults, result \in DownloadResults :
          ApplyDownload(ft,
              download(ft, output_path,
                       get_auth_options(browser, cookies_file, cookie_exists),
                       mkdir, result))
    /\ UNCHANGED <<output_path, browser, cookies_file, cookie_exists>>
    /\ UNCHANGED <<urlVars, mainVars>>
    /\ UNCHANGED hookVars

\* The environment creates or removes the cookie file between two calls.
EnvCookieFile ==
    /\ StrTruthy(cookies_file)
    /\ cookie_exists' = ~cookie_exists
    /\ UNCHANGED <<output_path, browser, cookies_file, video_info,
                   n_calls, n_extract, n_download, last, prev>>
    /\ UNCHANGED <<urlVars, mainVars>>
    /\ UNCHANGED hookVars

NextObj == ObjGetVideoInfo \/ ObjDownload \/ EnvCookieFile

SpecObj == InitObj /\ [][NextObj]_vars

(***************************************************************************)
(* src/main.py                                                             *)
(***************************************************************************)

\* SUPPORTED_BROWSERS (src/src/downloader.py)
SUPPORTED_BROWSERS ==
    << "chrome", "firefox", "safari", "edge", "opera", "brave", "chromium" >>

DigitChars == "0123456789"

IsDigit(c) == \E i \in 1 .. Len(DigitChars) : CharAt(DigitChars, i) = c

DigitValue(c) == (CHOOSE i \in 1 .. Len(DigitChars) : CharAt(DigitChars, i) = c) - 1

\* Whether int(s) succeeds, for the strings typed at the prompts: a
\* non-empty run of decimal digits.
IsInt(s) == s # "" /\ \A i \in 1 .. Len(s) : IsDigit(CharAt(s, i))

RECURSIVE ToInt(_)
\* int(s) of a run of decimal digits
ToInt(s) ==
    IF s = "" THEN 0
    ELSE ToInt(SubSeq(s, 1, Len(s) - 1)) * 10 + DigitValue(CharAt(s, Len(s)))

\* select_browser: what one answer does: <<"return", browser or NoneVal>> or
\* <<"again">> (the prompt is repeated).
select_browser(answer) ==
    LET choice == Strip(answer) IN
    IF choice = "0" \/ choice = "" THEN << "return", NoneVal >>
    ELSE IF IsInt(choice) /\ ToInt(choice) - 1 >= 0
                          /\ ToInt(choice) - 1 < Len(SUPPORTED_BROWSERS)
    THEN << "return", SUPPORTED_BROWSERS[ToInt(choice)] >>
    ELSE << "again" >>

\* get_url_input: one answer.
get_url_input(answer) ==
    IF Strip(answer) # "" THEN << "return", Strip(answer) >> ELSE << "again" >>

\* select_format: one answer.
select_format(answer) ==
    LET choice == Strip(answer) IN
    CASE choice = "1" -> << "return", "MP4" >>
      [] choice = "2" -> << "return", "SOURCE" >>
      [] choice = "3" -> << "return", "MP3" >>
      [] choice = "4" -> << "return", "AAC" >>
      [] OTHER -> << "again" >>

\* confirm_download: one answer.
confirm_download(answer) ==
    LET confirm == Lower(Strip(answer)) IN
    IF confirm \in { "y", "yes" } THEN << "return", TRUE >>
    ELSE IF confirm \in { "n", "no" } THEN << "return", FALSE >>
    ELSE << "again" >>

\* parse_format: format_map.get(format_str.lower())
parse_format(format_str) ==
    LET f == Lower(format_str) IN
    CASE f = "mp4" -> "MP4"
      [] f = "source" -> "SOURCE"
      [] f = "mp3" -> "MP3"
      [] f = "aac" -> "AAC"
      [] OTHER -> NoneVal

\* What the user types at the prompts.
BrowserAnswers == { "0", "", "1", " 7 ", "8", "x" }
UrlAnswers == { "", "  ", " https://youtu.be/dQw4w9WgXcQ ", "not-a-url",
                "www.youtube.com/watch?v=dQw4w9WgXcQ" }
FormatAnswers == { "1", "2", " 3 ", "4", "5", "" }
ConfirmAnswers == { "y", "YES ", " n", "No", "maybe" }

\* At most this many answers that make a prompt repeat, in one run.
MaxRetries == 2

\* main() has parsed the arguments: `if args.url:` chooses the mode.
FlagMode == StrTruthy(args.url)

Bump(f, k) == [ f EXCEPT ![k] = @ + 1 ]

runVars == <<format_type, pending, exit_code, raised, interrupted,
             prompts, retries, confirm_ret, display_ret>>

\* YouTubeDownloader(u, out, browser=br, cookies_file=cf) inside a run.
NewDownloader(u, out, br, cf) ==
    /\ url' = u
    /\ parts' = RawPart(u)
    /\ output_path' = out
    /\ browser' = br
    /\ cookies_file' = cf
    /\ video_info' = NoneInfo
    /\ UNCHANGED <<validate_ret, extract_ret, cookie_exists,
                   n_calls, n_extract, n_download, last, prev>>

\* main: args.url given -> run_with_args, else run_interactive.
MainDispatch ==
    /\ pc = "main"
    /\ pc' = IF FlagMode THEN "run_with_args" ELSE "run_interactive"
    /\ UNCHANGED <<args, runVars>>
    /\ UNCHANGED <<urlVars, objVars>>
    /\ UNCHANGED hookVars

\* run_interactive up to the first prompt: select_browser is asked only when
\* neither --browser nor --cookies was given.  Until the downloader is
\* constructed, browser and cookies_file hold the function's parameters.
RunInteractive ==
    /\ pc = "run_interactive"
    /\ pc' = IF ~StrTruthy(args.browser) /\ ~StrTruthy(args.cookies)
             THEN "select_browser" ELSE "get_url_input"
    /\ browser' = args.browser
    /\ cookies_file' = args.cookies
    /\ UNCHANGED <<args, runVars>>
    /\ UNCHANGED <<urlVars, output_path, video_info, cookie_exists,
                   n_calls, n_extract, n_download, last, prev>>
    /\ UNCHANGED hookVars

\* One answer at the prompt of select_browser.
SelectBrowser ==
    /\ pc = "select_browser"
    /\ \E answer \in BrowserAnswers :
          LET r == select_browser(answer) IN
          IF r[1] = "return"
          THEN /\ browser' = r[2]
               /\ pc' = "get_url_input"
               /\ retries' = retries
          ELSE /\ retries < MaxRetries
               /\ retries' = retries + 1
               /\ UNCHANGED <<browser, pc>>
    /\ prompts' = Bump(prompts, "browser")
    /\ UNCHANGED <<args, format_type, pending, exit_code, raised, interrupted,
                   confirm_ret, display_ret>>
    /\ UNCHANGED <<urlVars, output_path, cookies_file, video_info, cookie_exists,
                   n_calls, n_extract, n_download, last, prev>>
    /\ UNCHANGED hookVars

\* One answer at the prompt of get_url_input; a non-empty one constructs the
\* downloader.
GetUrlInput ==
    /\ pc = "get_url_input"
    /\ \E answer \in UrlAnswers :
          LET r == get_url_input(answer) IN
          IF r[1] = "return"
          THEN /\ NewDownloader(r[2], args.output, browser, cookies_file)
               /\ pc' = "validate_url"
               /\ retries' = retries
          ELSE /\ retries < MaxRetries
               /\ retries' = retries + 1
               /\ UNCHANGED <<pc, urlVars, objVars>>
    /\ prompts' = Bump(prompts, "url")
    /\ UNCHANGED <<args, format_type, pending, exit_code, raised, interrupted,
                   confirm_ret, display_ret>>
    /\ UNCHANGED hookVars

\* run_with_args up to the validation: the downloader is constructed from
\* the flags.
RunWithArgs ==
    /\ pc = "run_with_args"
    /\ NewDownloader(args.url, args.output, args.browser, args.cookies)
    /\ pc' = "validate_url"
    /\ UNCHANGED <<args, runVars>>
    /\ UNCHANGED hookVars

\* Mutant of ValidateUrl: the `return 1` of the failed validation is missing.
ValidateUrl_NoReturn ==
    /\ pc = "validate_url"
    /\ validate_ret' = << validate(url) >>
    /\ pc' = "display_video_info"
    /\ UNCHANGED <<args, format_type, pending, exit_code, raised, interrupted,
                   prompts, retries, confirm_ret, display_ret>>
    /\ UNCHANGED <<url, parts, extract_ret, objVars>>
    /\ UNCHANGED hookVars

\* `if not downloader.validate_url():` ... return 1
ValidateUrl ==
    /\ pc = "validate_url"
    /\ validate_ret' = << validate(url) >>
    /\ IF validate(url)
       THEN pc' = "display_video_info" /\ pending' = pending
       ELSE pc' = "returning" /\ pending' = << 1 >>
    /\ UNCHANGED <<args, format_type, exit_code, raised, interrupted,
                   prompts, retries, confirm_ret, display_ret>>
    /\ UNCHANGED <<url, parts, extract_ret, objVars>>
    /\ UNCHANGED hookVars

\* How a call made by the run ends when exception exc leaves it: the
\* KeyboardInterrupt is caught by main (return 130), any other exception
\* leaves main.
Escapes(exc) ==
    /\ pc' = "done"
    /\ IF exc = "KeyboardInterrupt"
       THEN /\ interrupted' = TRUE
            /\ exit_code' = << 130 >>
            /\ raised' = raised
       ELSE /\ raised' = exc
            /\ UNCHANGED <<interrupted, exit_code>>

\* display_video_info: info = downloader.get_video_info(); `if not info:
\* return False`, and then `if not display_video_info(downloader): return 1`.
DisplayVideoInfo ==
    /\ pc = "display_video_info"
    /\ \E answer \in ExtractAnswers :
          LET r == get_video_info(video_info,
                                  get_auth_options(browser, cookies_file, cookie_exists),
                                  answer)
          IN /\ ApplyGetVideoInfo(r)
             /\ IF r.exc # ""
                THEN /\ Escapes(r.exc)
                     /\ UNCHANGED <<pending, display_ret>>
                ELSE IF ~Truthy(r.ret)
                THEN /\ display_ret' = << FALSE >>
                     /\ pc' = "returning"
                     /\ pending' = << 1 >>
                     /\ UNCHANGED <<exit_code, raised, interrupted>>
                ELSE /\ pc' = "get_video_title"
                     /\ UNCHANGED <<pending, display_ret, exit_code, raised, interrupted>>
    /\ UNCHANGED <<args, format_type, prompts, retries, confirm_ret>>
    /\ UNCHANGED <<urlVars, output_path, browser, cookies_file, cookie_exists>>
    /\ UNCHANGED hookVars

\* display_video_info: downloader.get_video_title() and
\* downloader.get_video_duration(), each a get_video_info call; then
\* return True.  The two printed lines are not part of the state.
DisplayAccessor ==
    /\ pc \in { "get_video_title", "get_video_duration" }
    /\ \E answer \in ExtractAnswers :
          LET r == get_video_info(video_info,
                                  get_auth_options(browser, cookies_file, cookie_exists),
                                  answer)
          IN /\ ApplyGetVideoInfo(r)
             /\ IF r.exc # ""
                THEN /\ Escapes(r.exc)
                     /\ UNCHANGED <<display_ret, format_type>>
                ELSE IF pc = "get_video_title"
                THEN /\ pc' = "get_video_duration"
                     /\ UNCHANGED <<display_ret, format_type, exit_code, raised, interrupted>>
                ELSE /\ display_ret' = << TRUE >>
                     /\ IF FlagMode /\ StrTruthy(args.format)
                        THEN /\ format_type' = parse_format(args.format)
                             /\ pc' = "download"
                        ELSE /\ format_type' = format_type
                             /\ pc' = "select_format"
                     /\ UNCHANGED <<exit_code, raised, interrupted>>
    /\ UNCHANGED <<args, pending, prompts, retries, confirm_ret>>
    /\ UNCHANGED <<urlVars, output_path, browser, cookies_file, cookie_exists>>
    /\ UNCHANGED hookVars

\* One answer at the prompt of select_format.
SelectFormat ==
    /\ pc = "select_format"
    /\ \E answer \in FormatAnswers :
          LET r == select_format(answer) IN
          IF r[1] = "return"
          THEN /\ format_type' = r[2]
               /\ pc' = "confirm_download"
               /\ retries' = retries
          ELSE /\ retries < MaxRetries
               /\ retries' = retries + 1
               /\ UNCHANGED <<format_type, pc>>
    /\ prompts' = Bump(prompts, "format")
    /\ UNCHANGED <<args, pending, exit_code, raised, interrupted,
                   confirm_ret, display_ret>>
    /\ UNCHANGED <<urlVars, objVars>>
    /\ UNCHANGED hookVars

\* Mutant of ConfirmDownload: the answer of confirm_download is not tested.
ConfirmDownload_IgnoresNo ==
    /\ pc = "confirm_download"
    /\ \E answer \in ConfirmAnswers :
          LET r == confirm_download(answer) IN
          IF r[1] = "return"
          THEN /\ confirm_ret' = << r[2] >>
               /\ pc' = "download"
               /\ retries' = retries
          ELSE /\ retries < MaxRetries
               /\ retries' = retries + 1
               /\ UNCHANGED <<confirm_ret, pc>>
    /\ prompts' = Bump(prompts, "confirm")
    /\ UNCHANGED <<args, format_type, pending, exit_code, raised, interrupted, display_ret>>
    /\ UNCHANGED <<urlVars, objVars>>
    /\ UNCHANGED hookVars

\* One answer at the prompt of confirm_download; `if not confirm_download():
\* ... return 0`.
ConfirmDownload ==
    /\ pc = "confirm_download"
    /\ \E answer \in ConfirmAnswers :
          LET r == confirm_download(answer) IN
          IF r[1] = "return"
          THEN /\ confirm_ret' = << r[2] >>
               /\ IF r[2]
                  THEN pc' = "download" /\ pending' = pending
                  ELSE pc' = "returning" /\ pending' = << 0 >>
               /\ retries' = retries
          ELSE /\ retries < MaxRetries
               /\ retries' = retries + 1
               /\ UNCHANGED <<confirm_ret, pc, pending>>
    /\ prompts' = Bump(prompts, "confirm")
    /\ UNCHANGED <<args, format_type, exit_code, raised, interrupted, display_ret>>
    /\ UNCHANGED <<urlVars, objVars>>
    /\ UNCHANGED hookVars

\* `if downloader.download(format_type): ... return 0  else: return 1`
Download ==
    /\ pc = "download"
    /\ \E mkdir \in MkdirResults, result \in DownloadResults :
          LET r == download(format_type, output_path,
                            get_auth_options(browser, cookies_file, cookie_exists),
                            mkdir, result)
          IN /\ ApplyDownload(format_type, r)
             /\ IF r.exc # ""
                THEN /\ Escapes(r.exc)
                     /\ pending' = pending
                ELSE /\ pc' = "returning"
                     /\ pending' = << IF r.ret THEN 0 ELSE 1 >>
                     /\ UNCHANGED <<exit_code, raised, interrupted>>
    /\ UNCHANGED <<args, format_type, prompts, retries, confirm_ret, display_ret>>
    /\ UNCHANGED <<urlVars, output_path, browser, cookies_file, cookie_exists>>
    /\ UNCHANGED hookVars

\* The message is printed and run_interactive / run_with_args return the
\* code, which main returns.
Return ==
    /\ pc = "returning"
    /\ exit_code' = pending
    /\ pc' = "done"
    /\ UNCHANGED <<args, format_type, pending, raised, interrupted,
                   prompts, retries, confirm_ret, display_ret>>
    /\ UNCHANGED <<urlVars, objVars>>
    /\ UNCHANGED hookVars

\* The user interrupts the run while it is not inside the extraction
\* service: `except KeyboardInterrupt: ... return 130`.
Interrupt ==
    /\ pc # "done"
    /\ ~interrupted
    /\ interrupted' = TRUE
    /\ exit_code' = << 130 >>
    /\ pc' = "done"
    /\ UNCHANGED <<args, format_type, pending, raised,
                   prompts, retries, confirm_ret, display_ret>>
    /\ UNCHANGED <<urlVars, objVars>>
    /\ UNCHANGED hookVars

\* The arguments argparse lets through.
UrlArgs == { NoneVal, "", "https://www.youtube.com/watch?v=dQw4w9WgXcQ", "not-a-url" }
FormatArgs == { NoneVal, "mp4", "source", "mp3", "aac" }
BrowserArgs == { NoneVal, "chrome" }
CookieArgs == { NoneVal, "cookies.txt" }

\* The state when parse_arguments has returned.
Init ==
    /\ args \in [ url : UrlArgs, format : FormatArgs, output : { "downloads" },
                  browser : BrowserArgs, cookies : CookieArgs ]
    /\ cookie_exists \in BOOLEAN
    /\ pc = "main"
    /\ format_type = ""
    /\ pending = <<>>
    /\ exit_code = <<>>
    /\ raised = ""
    /\ interrupted = FALSE
    /\ prompts = NoPrompts
    /\ retries = 0
    /\ confirm_ret = <<>>
    /\ display_ret = <<>>
    /\ Construct(NoneVal, NoneVal, NoneVal, NoneVal)
    /\ NoEvent

Next ==
    \/ MainDispatch
    \/ RunInteractive
    \/ SelectBrowser
    \/ GetUrlInput
    \/ RunWithArgs
    \/ ValidateUrl
    \/ DisplayVideoInfo
    \/ DisplayAccessor
    \/ SelectFormat
    \/ ConfirmDownload
    \/ Download
    \/ Return
    \/ Interrupt
    \/ EnvCookieFile

Spec == Init /\ [][Next]_vars

(***************************************************************************)
(* SpecUrl: the validator on generated strings.                            *)
(***************************************************************************)

InitUrl ==
    /\ parts \in UrlParts \cup RawParts
    /\ url = Assemble(parts)
    /\ validate_ret = <<>>
    /\ extract_ret = <<>>
    /\ output_path = "."
    /\ browser = NoneVal
    /\ cookies_file = NoneVal
    /\ video_info = NoneInfo
    /\ cookie_exists = FALSE
    /\ n_calls = 0
    /\ n_extract = 0
    /\ n_download = 0
    /\ last = NoCall
    /\ prev = Brief(NoCall)
    /\ NoRun
    /\ NoEvent

\* A caller runs URLValidator.validate(url).
ValidateCall ==
    /\ validate_ret = <<>>
    /\ validate_ret' = << validate(url) >>
    /\ UNCHANGED <<url, parts, extract_ret>>
    /\ UNCHANGED <<objVars, mainVars>>
    /\ UNCHANGED hookVars

\* A caller runs URLValidator.extract_video_id(url).
ExtractCall ==
    /\ extract_ret = <<>>
    /\ extract_ret' = << extract_video_id(url) >>
    /\ UNCHANGED <<url, parts, validate_ret>>
    /\ UNCHANGED <<objVars, mainVars>>
    /\ UNCHANGED hookVars

NextUrl == ValidateCall \/ ExtractCall

SpecUrl == InitUrl /\ [][NextUrl]_vars

(***************************************************************************)
(* SpecBar: the progress hook of one download.  yt-dlp calls the hook      *)
(* registered in progress_hooks with any sequence of progress events; an   *)
(* exception the hook raises ends the download, and with it the events.    *)
(***************************************************************************)

\* Byte counts of the events: nothing, a part, all and more than the total.
TotalBytes == { 0, 3, 64, 100 }

DownloadedBytes == { 0, 1, 2, 3, 50, 64, 99, 100, 101, 150 }

\* The value of a total: a byte count or None.
TotalValues == { <<>> } \cup { << n >> : n \in TotalBytes }

DownloadedValues == { << n >> : n \in DownloadedBytes }

\* The key absent, or the key with one of the values.
Optional(key, values) == { NoDict } \cup { [ k \in { key } |-> v ] : v \in values }

\* The events of one status: each of the three byte counts may be absent.
ProgressEvents(status) ==
    { [ k \in { "status" } |-> status ] @@ tb @@ te @@ db :
          tb \in Optional("total_bytes", TotalValues),
          te \in Optional("total_bytes_estimate", TotalValues),
          db \in Optional("downloaded_bytes", DownloadedValues) }

\* A download of the constructed object is running: no event delivered yet.
InitBar ==
    /\ \E u \in ObjUrls, out \in OutputPaths : Construct(u, out, NoneVal, NoneVal)
    /\ cookie_exists = FALSE
    /\ NoRun
    /\ NoEvent

\* The state change of one call progress_hook(e).
Deliver(e) ==
    /\ d' = e
    /\ rendered' = progress_hook(e)

\* yt-dlp reports progress of the running download.
HookDownloading ==
    /\ rendered.exc = ""
    /\ \E e \in ProgressEvents("downloading") : Deliver(e)
    /\ UNCHANGED <<urlVars, objVars, mainVars>>

\* yt-dlp reports a finished file.
HookFinished ==
    /\ rendered.exc = ""
    /\ \E e \in ProgressEvents("finished") : Deliver(e)
    /\ UNCHANGED <<urlVars, objVars, mainVars>>

\* yt-dlp reports an error.
HookError ==
    /\ rendered.exc = ""
    /\ \E e \in ProgressEvents("error") : Deliver(e)
    /\ UNCHANGED <<urlVars, objVars, mainVars>>

NextBar == HookDownloading \/ HookFinished \/ HookError

SpecBar == InitBar /\ [][NextBar]_vars

(***************************************************************************)
(* Properties of the validator.                                            *)
(***************************************************************************)

\* The segment at the identifier position, and the length of its maximal
\* leading run of characters of the class.
Segment(p) == p.ident \o p.tail

IdRunLen(s) ==
    LET runs == { n \in 0 .. Len(s) : \A i \in 1 .. n : CharAt(s, i) \in IdChars }
    IN CHOOSE n \in runs : \A m \in runs : m <= n

HttpOrHttps(p) == p.scheme \in { "http://", "https://" }

LongPaths == { "/watch?v=", "/v/", "/embed/", "/shorts/", "/live/" }

\* The six shapes, the youtube.com ones with or without www., the short
\* link without a subdomain.
KnownShape(p) ==
    \/ p.host \in { "youtube.com", "www.youtube.com" } /\ p.path \in LongPaths
    \/ p.host = "youtu.be" /\ p.path = "/"

\* The six shapes, every one of them with or without www.
KnownShapeAnyWww(p) ==
    \/ KnownShape(p)
    \/ p.host = "www.youtu.be" /\ p.path = "/"

Returned(ret, v) == ret # <<>> => ret = <<v>>

Carries11(p) == Len(p.ident) = IdLen /\ IdRunLen(Segment(p)) = IdLen

C10_ExactlyEleven ==
    (HttpOrHttps(parts) /\ KnownShape(parts))
        => Returned(validate_ret, IdRunLen(Segment(parts)) = IdLen)

(***************************************************************************)
(* Properties of the orchestrator object (SpecObj).                        *)
(***************************************************************************)

\* The last call was get_video_info and it returned a metadata record.
ReturnedRecord(c) == c.op = "get_video_info" /\ c.exc = "" /\ ~c.ret_info.isNone

\* C1 as stated: of two get_video_info calls in succession, when the first
\* returned a metadata record (whatever record, the one without fields
\* included), the second returns the same record without contacting the
\* extraction service.
C1_SecondCallCached ==
    (ReturnedRecord(prev) /\ last.op = "get_video_info")
        => /\ ~last.contacted
           /\ last.exc = ""
           /\ last.ret_info = prev.ret_info

\* The service raised yt_dlp.utils.DownloadError during the last
\* get_video_info call.
FetchFailed(c) == c.op = "get_video_info" /\ c.outcome = "DownloadError"

\* C2: when the metadata fetch fails with the extraction error, of the
\* rate-limited/unavailable kind or of the generic kind, get_video_info
\* returns None and does not write _video_info, which stays absent (false);
\* the next get_video_info call contacts the service again and, when that
\* attempt yields a record, returns it and stores it in _video_info.
C2_FailureNotCached ==
    /\ FetchFailed(last)
          => /\ last.exc = ""
             /\ last.ret_info = NoneInfo
             /\ last.printed \in { "rate limit warning", "Error fetching video info" }
             /\ video_info = last.cache_before
             /\ ~Truthy(video_info)
    /\ (FetchFailed(prev) /\ last.op = "get_video_info")
          => /\ last.contacted
             /\ last.outcome = "record"
                   => /\ ~last.ret_info.isNone
                      /\ video_info = last.ret_info

\* C2 witness: a rate-limited fetch failed, and the retry fetched and
\* cached a record.
C2_Witness ==
    /\ FetchFailed(prev)
    /\ last.op = "get_video_info" /\ last.outcome = "record"
    /\ n_extract = 2
    /\ Truthy(video_info) /\ video_info = last.ret_info

\* C3 as stated: whatever exception the extraction service raises during
\* get_video_info or download (the extraction error or any other exception,
\* the user interrupt aside), the method catches it and returns None
\* (get_video_info) or False (download).
C3_ServiceErrorsCaught ==
    last.outcome \in { "DownloadError", "Exception" }
        => /\ last.exc = ""
           /\ last.ret_info = NoneInfo
           /\ last.ret_ok = FALSE

\* The mapping table of the formats: stream selection and post-processing.
TableSelection(ft) ==
    CASE ft = "MP4" -> "bestvideo[ext=mp4]+bestaudio[ext=m4a]/best[ext=mp4]/best"
      [] ft = "SOURCE" -> "bestvideo+bestaudio/best"
      [] ft \in { "MP3", "AAC" } -> "bestaudio/best"

Transcode(codec, quality) ==
    << [ key |-> "FFmpegExtractAudio", preferredcodec |-> codec,
         preferredquality |-> quality ] >>

TablePostProcess(ft, opts) ==
    CASE ft = "MP4" ->
            /\ "postprocessors" \in DOMAIN opts
            /\ opts.postprocessors =
                  << [ key |-> "FFmpegVideoConvertor", preferedformat |-> "mp4" ] >>
      [] ft = "SOURCE" -> "postprocessors" \notin DOMAIN opts
      [] ft = "MP3" ->
            /\ "postprocessors" \in DOMAIN opts
            /\ opts.postprocessors = Transcode("mp3", "320")
      [] ft = "AAC" ->
            /\ "postprocessors" \in DOMAIN opts
            /\ opts.postprocessors = Transcode("aac", "256")

\* The subfolder named after the format value under the base directory.
SubfolderTemplate(base, value) ==
    (IF EndsWith(base, "/") THEN base ELSE base \o "/") \o value \o "/%(title)s.%(ext)s"

\* C7: _get_ydl_options, called by download, returns an options record for
\* each of the four FormatType members (whenever the format directory can be
\* created) and raises an error for any other value, with no record built and
\* no download started; for each format the stream selection and the
\* post-processing step are those of the table, and the output template is
\* in the subfolder named after the format value under output_path.
C7_OptionsTable ==
    last.op = "download"
        => /\ last.format \notin FormatType
                 => /\ last.exc \in { "ValueError", "AttributeError", "OSError" }
                    /\ ~last.contacted
                    /\ last.opts = EmptyDict
           /\ (last.format \in FormatType /\ last.exc # "OSError")
                 => /\ last.contacted
                    /\ { "format", "outtmpl" } \subseteq DOMAIN last.opts
                    /\ last.opts.format = TableSelection(last.format)
                    /\ TablePostProcess(last.format, last.opts)
                    /\ last.opts.outtmpl =
                          SubfolderTemplate(output_path, FormatValue(last.format))
                    /\ last.made = { PathJoin(output_path, FormatValue(last.format)) }

\* C7 witness: an MP3 download was started with the audio selection, the
\* transcode to mp3 at 320 and the template under downloads/mp3.
C7_Witness ==
    /\ last.op = "download" /\ last.format = "MP3" /\ last.contacted
    /\ last.opts.format = "bestaudio/best"
    /\ last.opts.postprocessors = Transcode("mp3", "320")
    /\ last.opts.outtmpl = "downloads/mp3/%(title)s.%(ext)s"

HasKey(dict, k) == k \in DOMAIN dict

\* The authentication part of C8 that holds as stated: browser entry when a
\* browser is given, nothing when neither is given, never both entries.
AuthCommon(opts) ==
    /\ StrTruthy(browser)
          => /\ HasKey(opts, "cookiesfrombrowser")
             /\ opts.cookiesfrombrowser = << browser >>
             /\ ~HasKey(opts, "cookiefile")
    /\ (~StrTruthy(browser) /\ ~StrTruthy(cookies_file))
          => /\ ~HasKey(opts, "cookiesfrombrowser")
             /\ ~HasKey(opts, "cookiefile")
    /\ ~(HasKey(opts, "cookiesfrombrowser") /\ HasKey(opts, "cookiefile"))

\* The last call built an options record and handed it to yt_dlp.YoutubeDL.
BuiltOptions == last.op \in { "get_video_info", "download" } /\ last.contacted

\* C8 (as amended): every options record built, for the metadata fetch and
\* for the download, carries the browser cookie source and no cookie-file
\* entry when a (non-empty) browser is given, also when a cookie file is given
\* too; when only a cookie-file path is given, it carries that path if the
\* file exists at the time the record is built and no authentication entry if
\* it does not; it carries no authentication entry when neither is given.
\* At most one of the two entries is ever present.
C8_AuthMerged ==
    BuiltOptions
        => /\ AuthCommon(last.opts)
           /\ (~StrTruthy(browser) /\ StrTruthy(cookies_file) /\ last.cookie_seen)
                 => /\ HasKey(last.opts, "cookiefile")
                    /\ last.opts.cookiefile = cookies_file
                    /\ ~HasKey(last.opts, "cookiesfrombrowser")
           /\ (~StrTruthy(browser) /\ StrTruthy(cookies_file) /\ ~last.cookie_seen)
                 => /\ ~HasKey(last.opts, "cookiefile")
                    /\ ~HasKey(last.opts, "cookiesfrombrowser")

\* C8 witness: with only a cookie file given, the metadata fetch was built
\* while the file existed and the download after the file was gone.
C8_Witness ==
    /\ ~StrTruthy(browser) /\ cookies_file = "cookies.txt"
    /\ prev.op = "get_video_info" /\ prev.outcome = "record"
    /\ last.op = "download" /\ last.contacted
    /\ ~last.cookie_seen
    /\ ~HasKey(last.opts, "cookiefile")

\* C8 as stated: when only a cookie-file path is given, the record carries
\* that path.
C8_Original ==
    BuiltOptions
        => /\ AuthCommon(last.opts)
           /\ (~StrTruthy(browser) /\ StrTruthy(cookies_file))
                 => /\ HasKey(last.opts, "cookiefile")
                    /\ last.opts.cookiefile = cookies_file

(***************************************************************************)
(* Properties of a run of main() (Spec).                                   *)
(***************************************************************************)

Finished == pc = "done"

\* download was called and returned True / returned False.
DownloadReturned(b) == last.op = "download" /\ last.exc = "" /\ last.ret_ok = b

\* The metadata fetch of display_video_info returned None.
FetchReturnedNone == last.op = "get_video_info" /\ last.exc = "" /\ last.ret_info.isNone

\* C4 as stated: every run of main ends with exit code 0, 1 or 130; 130
\* exactly when a user interrupt arrived; otherwise 0 exactly when the
\* download succeeded or the user answered no to the confirmation, and 1
\* exactly when the URL validation failed, the metadata fetch returned None
\* or download returned False.
C4_ExitCodes ==
    Finished
        => /\ exit_code \in { << 0 >>, << 1 >>, << 130 >> }
           /\ exit_code = << 130 >> <=> interrupted
           /\ ~interrupted
                 => /\ exit_code = << 0 >>
                          <=> (DownloadReturned(TRUE) \/ confirm_ret = << FALSE >>)
                    /\ exit_code = << 1 >>
                          <=> \/ validate_ret = << FALSE >>
                              \/ FetchReturnedNone
                              \/ DownloadReturned(FALSE)

\* C5: in every run the external metadata fetch is attempted only after
\* validate_url returned true, and the external download is invoked only
\* after a metadata fetch succeeded (display_video_info returned true, the
\* record is cached); for a URL that fails validation no metadata fetch and
\* no download is attempted, and the run, unless the user interrupts it,
\* ends with exit code 1.
C5_StageOrder ==
    /\ n_extract > 0 => validate_ret = << TRUE >>
    /\ (n_download > 0 \/ last.op = "download")
          => /\ validate_ret = << TRUE >>
             /\ display_ret = << TRUE >>
             /\ n_extract > 0
             /\ Truthy(video_info)
    /\ validate_ret = << FALSE >>
          => /\ n_extract = 0
             /\ n_download = 0
             /\ n_calls = 0
             /\ (Finished /\ ~interrupted) => exit_code = << 1 >>

\* C5 witness: a run went through validation, one metadata fetch and one
\* download, and ended with exit code 0.
C5_Witness ==
    /\ Finished /\ exit_code = << 0 >>
    /\ validate_ret = << TRUE >> /\ display_ret = << TRUE >>
    /\ n_extract = 1 /\ n_download = 1

\* C6: with the URL given by flag and no --format, the format prompt and
\* then the confirmation prompt come before any download call, download is
\* called only after the user confirmed, with the format chosen at the
\* prompt, and a decline ends the run with exit code 0 (unless the user
\* interrupts it) and no download call; with --format, download is called
\* with that format once the metadata is shown, and neither prompt is ever
\* shown.
C6_FlagModePrompts ==
    FlagMode
        => /\ ~StrTruthy(args.format)
                 => /\ last.op = "download"
                          => /\ prompts.format >= 1 /\ prompts.confirm >= 1
                             /\ confirm_ret = << TRUE >>
                             /\ format_type \in FormatType
                             /\ last.format = format_type
                    /\ prompts.confirm >= 1
                          => prompts.format >= 1 /\ format_type \in FormatType
                    /\ confirm_ret = << FALSE >>
                          => /\ last.op # "download"
                             /\ n_download = 0
                             /\ (Finished /\ ~interrupted) => exit_code = << 0 >>
           /\ StrTruthy(args.format)
                 => /\ prompts.format = 0 /\ prompts.confirm = 0
                    /\ confirm_ret = <<>>
                    /\ last.op = "download"
                          => /\ last.format \in FormatType
                             /\ FormatValue(last.format) = args.format
                    /\ (Finished /\ ~interrupted /\ raised = "" /\ display_ret = << TRUE >>)
                          => last.op = "download"

\* C6 witness: URL by flag, no --format; the format was asked, the user
\* declined at the confirmation, and the run ended with exit code 0 without
\* a download call.
C6_Witness ==
    /\ FlagMode /\ args.format = NoneVal
    /\ Finished /\ exit_code = << 0 >>
    /\ prompts.format >= 1 /\ prompts.confirm >= 1
    /\ confirm_ret = << FALSE >>
    /\ last.op # "download"

(***************************************************************************)
(* Properties of the progress hook (SpecBar).                              *)
(***************************************************************************)

\* The hook has handled a 'downloading' event.
HandledDownloading == "status" \in DOMAIN d /\ d["status"] = "downloading"

\* Whether the event carries a byte count under the key.
Known(key) == key \in DOMAIN d /\ d[key] # <<>>

\* The total of the event: the known total, else the estimate, else 0 for
\* a missing one.
TotalOf ==
    IF Known("total_bytes") /\ d["total_bytes"][1] > 0
    THEN d["total_bytes"][1]
    ELSE IF Known("total_bytes_estimate") THEN d["total_bytes_estimate"][1]
    ELSE 0

DownloadedOf == IF Known("downloaded_bytes") THEN d["downloaded_bytes"][1] ELSE 0

\* The number of cells of the written bar that hold c.
Cells(c) == Cardinality({ i \in 1 .. Len(rendered.bar) : CharAt(rendered.bar, i) = c })

\* The renderer got downloaded/total*100 (0 without a positive total), a
\* percentage in 0..100, and wrote DefaultWidth cells, the filled ones first
\* and as many as the truncated share width * percent / 100.
RenderedAsSpecified ==
    LET p == rendered.percent
        filled == Cells(FilledCell)
    IN /\ rendered.exc = ""
       /\ rendered.called
       /\ IF TotalOf > 0
          THEN p.num * TotalOf = DownloadedOf * 100 * p.den
          ELSE p.num = 0
       /\ 0 <= p.num
       /\ p.num <= 100 * p.den
       /\ Len(rendered.bar) = DefaultWidth
       /\ filled + Cells(UnfilledCell) = DefaultWidth
       /\ rendered.bar = Repeat(FilledCell, filled)
                            \o Repeat(UnfilledCell, DefaultWidth - filled)
       /\ filled * 100 * p.den <= DefaultWidth * p.num
       /\ DefaultWidth * p.num < (filled + 1) * 100 * p.den

\* C11: for every 'downloading' progress event (any downloaded byte count,
\* the total known, only estimated or missing) the percentage handed to the
\* renderer is downloaded/total*100 when the total is positive and 0
\* otherwise, lies in 0..100, and the bar written has exactly width (32)
\* cells, filled plus unfilled, the filled count proportional to the
\* percentage.
C11_BarWithinWidth == HandledDownloading => RenderedAsSpecified

\* The events for which the hook keeps to it: the estimate, where it is
\* used, is a number, and no more bytes are downloaded than the total.
WithinTotal ==
    /\ ~(Known("total_bytes") /\ d["total_bytes"][1] > 0)
          => ("total_bytes_estimate" \in DOMAIN d => Known("total_bytes_estimate"))
    /\ TotalOf > 0 => DownloadedOf <= TotalOf

BarWithinWidthWhenWithinTotal ==
    (HandledDownloading /\ WithinTotal) => RenderedAsSpecified

\* A bar overrun and a hook that raised are both reached.
BarOverrun ==
    HandledDownloading /\ rendered.called /\ Len(rendered.bar) > DefaultWidth

HookRaised == HandledDownloading /\ rendered.exc = "TypeError"

\* A partly filled bar of the specified width is reached.
BarPartlyFilled ==
    /\ HandledDownloading /\ WithinTotal /\ RenderedAsSpecified
    /\ Cells(FilledCell) \in 1 .. (DefaultWidth - 1)


=============================================================================
